---------------------------- MODULE Spec2Model ----------------------------
(***************************************************************************)
(* State-machine model of the Eduspace front end: KnowledgeHub (resource   *)
(* list, search, creation form, AI summary), the App-level summary         *)
(* handler, and the stand-alone FileUpload component.                      *)
(*                                                                         *)
(* Strings are sequences of tokens, so that trim / startsWith / includes   *)
(* and the extension regex are computed rather than assumed.               *)
(***************************************************************************)
EXTENDS Integers, Sequences, FiniteSets, TLC

(***************************************************************************)
(* Bounds of the model.                                                    *)
(***************************************************************************)
MaxQueryLen == 2
MaxRequests == 3
MaxSubmits == 1
MaxAppRequests == 2

(***************************************************************************)
(* Generic helpers.                                                        *)
(***************************************************************************)
Null == <<"null">>                       \* the JavaScript null / undefined value
NoToast == <<>>                            \* no notification

SeqsUpTo(S, n) == UNION {[1..k -> S] : k \in 0..n}

(* String.prototype.trim on a token string: strip blanks at both ends. *)
RECURSIVE TrimLeft(_)
TrimLeft(s) == IF s # <<>> /\ Head(s) = " " THEN TrimLeft(Tail(s)) ELSE s

RECURSIVE TrimRight(_)
TrimRight(s) ==
    IF s # <<>> /\ s[Len(s)] = " " THEN TrimRight(SubSeq(s, 1, Len(s) - 1)) ELSE s

Trim(s) == TrimRight(TrimLeft(s))

(* JavaScript truthiness of a string-or-null value. *)
Truthy(s) == s # Null /\ s # <<>>

(* a || b for string-or-null values. *)
OrElse(a, b) == IF Truthy(a) THEN a ELSE b

(***************************************************************************)
(* URLs: sequences of tokens.  A token is a scheme, a host, a path piece   *)
(* or an extension; the literal string "None" is the one-token URL.        *)
(***************************************************************************)
PdfTokens == {".pdf"}
DocTokens == {".doc", ".docx"}            \* '.docx' contains '.doc'
DocxTokens == {".docx"}
ImageTokensLower == {".jpg", ".jpeg", ".png", ".gif", ".webp"}
ImageTokensUpper == {".JPG", ".PNG"}
CloudinaryTokens == {"cloudinary", "res.cloudinary.com"}
HttpTokens == {"http://", "https://"}

IncludesAny(url, toks) == \E i \in 1..Len(url) : url[i] \in toks

StartsWithAny(url, toks) == Len(url) > 0 /\ url[1] \in toks

(* /\.(jpg|jpeg|png|gif|webp)$/i : anchored at the end, case-insensitive *)
MatchesImageRegex(url) ==
    Len(url) > 0 /\ url[Len(url)] \in (ImageTokensLower \cup ImageTokensUpper)

getFileTypeFromUrl(url) ==
    IF ~Truthy(url) THEN "other"
    ELSE IF IncludesAny(url, PdfTokens) THEN "pdf"
    ELSE IF IncludesAny(url, DocxTokens) \/ IncludesAny(url, DocTokens) THEN "docx"
    ELSE IF MatchesImageRegex(url) THEN "image"
    ELSE IF StartsWithAny(url, HttpTokens) THEN "url"
    ELSE "other"

NoneLiteral == <<"None">>
Sentinel == <<"#">>

(* const fileUrl = note.file_url || '' *)
FileUrlOf(note) == OrElse(note.file_url, <<>>)

NoteTypeOf_ImageFirst(note) ==
    LET fileUrl == FileUrlOf(note) IN
    IF ~Truthy(fileUrl) \/ fileUrl = NoneLiteral THEN "other"
    ELSE IF StartsWithAny(fileUrl, HttpTokens) THEN
        IF MatchesImageRegex(fileUrl) THEN "image"
        ELSE IF IncludesAny(fileUrl, PdfTokens) THEN "pdf"
        ELSE IF IncludesAny(fileUrl, DocxTokens) \/ IncludesAny(fileUrl, DocTokens)
            THEN "docx"
        ELSE IF ~IncludesAny(fileUrl, {"/uploads/"})
                /\ ~IncludesAny(fileUrl, CloudinaryTokens)
                /\ ~IncludesAny(fileUrl, {"res.cloudinary.com"})
            THEN "url"
        ELSE getFileTypeFromUrl(fileUrl)
    ELSE getFileTypeFromUrl(fileUrl)

NoteTypeOf(note) ==
    LET fileUrl == FileUrlOf(note) IN
    IF ~Truthy(fileUrl) \/ fileUrl = NoneLiteral THEN "other"
    ELSE IF StartsWithAny(fileUrl, HttpTokens) THEN
        IF IncludesAny(fileUrl, PdfTokens) THEN "pdf"
        ELSE IF IncludesAny(fileUrl, DocxTokens) \/ IncludesAny(fileUrl, DocTokens)
            THEN "docx"
        ELSE IF MatchesImageRegex(fileUrl) THEN "image"
        ELSE IF ~IncludesAny(fileUrl, {"/uploads/"})
                /\ ~IncludesAny(fileUrl, CloudinaryTokens)
                /\ ~IncludesAny(fileUrl, {"res.cloudinary.com"})
            THEN "url"
        ELSE getFileTypeFromUrl(fileUrl)
    ELSE getFileTypeFromUrl(fileUrl)

(* a record without id, and a file_url that is truthy but no string *)
NoId == -1
NotAString == <<"[not a string]">>

(* note.id.toString() and fileUrl.startsWith(...) raise a TypeError *)
Throws(note) == note.id = NoId \/ FileUrlOf(note) = NotAString

convertBackendNoteToFrontend_NoneAsUrl(note, now) ==
    LET fileUrl == FileUrlOf(note)
        noteType == NoteTypeOf(note)
    IN  [ id |-> ToString(note.id),
          title |-> note.title,
          type |-> noteType,
          url |-> IF Truthy(fileUrl) THEN fileUrl
                  ELSE IF noteType = "url" /\ Truthy(note.summary) THEN note.summary
                  ELSE Sentinel,
          tags |-> <<>>,
          uploadDate |-> OrElse(note.created_at, now),
          rating |-> 0,
          size |-> <<>>,
          content |-> OrElse(note.extracted_content, OrElse(note.summary, <<>>)),
          summary |-> OrElse(note.summary, <<>>) ]

(* now: the value of new Date().toISOString() at the time of the call *)
convertBackendNoteToFrontend(note, now) ==
    LET fileUrl == FileUrlOf(note)
        noteType == NoteTypeOf(note)
    IN  [ id |-> ToString(note.id),
          title |-> note.title,
          type |-> noteType,
          url |-> IF Truthy(fileUrl) /\ fileUrl # NoneLiteral THEN fileUrl
                  ELSE IF noteType = "url" /\ Truthy(note.summary) THEN note.summary
                  ELSE Sentinel,
          tags |-> <<>>,
          uploadDate |-> OrElse(note.created_at, now),
          rating |-> 0,
          size |-> <<>>,
          content |-> OrElse(note.extracted_content, OrElse(note.summary, <<>>)),
          summary |-> OrElse(note.summary, <<>>) ]

(* backendNotes.map(note => convertBackendNoteToFrontend(note)) *)
FormatNotes(backendNotes, now) ==
    [i \in 1..Len(backendNotes) |-> convertBackendNoteToFrontend(backendNotes[i], now)]

(* the map raises as soon as one record does *)
FormatThrows(backendNotes) == \E i \in 1..Len(backendNotes) : Throws(backendNotes[i])

(* uploadedNote, built from the upload response *)
UploadedNote(response, now) ==
    [ id |-> response.id,
      title |-> response.title,
      type |-> IF response.type = "text" THEN "other"
               ELSE IF response.type = "link" THEN "url"
               ELSE getFileTypeFromUrl(OrElse(response.url, <<>>)),
      url |-> OrElse(response.url, Sentinel),
      tags |-> IF response.tags = Null THEN <<>> ELSE response.tags,
      uploadDate |-> OrElse(response.uploadDate, now),
      rating |-> 0,
      size |-> response.size,
      content |-> OrElse(response.content, <<>>),
      summary |-> OrElse(response.content, <<>>) ]

PrependNote_AtEnd(uploadedNote, prevNotes) == prevNotes \o <<uploadedNote>>

(* setNotes(prevNotes => [uploadedNote, ...prevNotes]) *)
PrependNote(uploadedNote, prevNotes) == <<uploadedNote>> \o prevNotes

(***************************************************************************)
(* What the collaborators can answer.                                      *)
(***************************************************************************)
Times == {<<"now1">>, <<"now2">>}

R1 == [ id |-> 1, title |-> <<"t1">>, file_url |-> Null,
        summary |-> <<"s1">>, extracted_content |-> Null, created_at |-> <<"d1">> ]
R2 == [ id |-> 2, title |-> <<"t2">>,
        file_url |-> <<"https://", "res.cloudinary.com", "/", "name", ".pdf">>,
        summary |-> Null, extracted_content |-> <<"x2">>, created_at |-> <<"d2">> ]
R3 == [ id |-> 3, title |-> <<"t3">>,
        file_url |-> <<"https://", "host", "/", "name">>,
        summary |-> <<"s3">>, extracted_content |-> Null, created_at |-> <<"d3">> ]

(* answers of GET /notes and GET /search *)
ListResponses == { <<>>, <<R1>>, <<R2, R1>>, <<R3, R2, R1>> }

(* Records of any shape: the backend is untyped.                           *)
RawIds == { 1, 2, NoId }
RawFileUrls ==
    { Null, <<>>, NoneLiteral, NotAString,
      <<"https://", "host", "/", "name", ".pdf">>,
      <<"https://", "host", "/", "name", ".PDF">>,
      <<"http://", "host", "/uploads/", "name", ".docx">>,
      <<"https://", "host", "/", "name", ".JPG">>,
      <<"https://", "host", "/", "name", ".pdf", ".png">>,
      <<"https://", "host", "/uploads/", "name", ".docx", ".jpg">>,
      <<"https://", "host", "/", "name">>,
      <<"https://", "res.cloudinary.com", "/", "name">>,
      <<"/uploads/", "name", ".png">>,
      <<"/uploads/", "name", ".zip">>,
      <<"/uploads/", "name">> }
RawRecords ==
    [ id : RawIds, title : { <<"t">>, Null }, file_url : RawFileUrls,
      summary : { Null, <<"s">> }, extracted_content : { Null, <<"x">> },
      created_at : { Null, <<"d">> } ]
PairRecords == { R1, R2, R3, [R1 EXCEPT !.id = NoId] }
RawLists ==
    {<<>>} \cup {<<rec>> : rec \in RawRecords}
           \cup {<<a, b>> : a \in PairRecords, b \in PairRecords}

U3 == [ id |-> "3", title |-> <<"t3">>, type |-> "link",
        url |-> <<"https://", "host", "/", "name">>, tags |-> <<"AI">>,
        uploadDate |-> <<"d3">>, size |-> <<>>, content |-> <<"s3">>,
        message |-> Null ]
U4 == [ id |-> "4", title |-> <<"t4">>, type |-> "text",
        url |-> Null, tags |-> Null,
        uploadDate |-> <<"d4">>, size |-> <<>>, content |-> <<"c4">>,
        message |-> <<"saved">> ]

(* answers of POST /upload *)
UploadResponses == { U3, U4 }

(* A created resource as POST /upload answers it and as GET /notes returns *)
(* it afterwards: a stored file (2), a link (3), a text note (4), a link   *)
(* to a pdf (5).                                                           *)
U2 == [ id |-> "2", title |-> <<"t2">>, type |-> "file",
        url |-> <<"https://", "res.cloudinary.com", "/", "name", ".pdf">>, tags |-> Null,
        uploadDate |-> <<"d2">>, size |-> <<>>, content |-> <<"x2">>,
        message |-> Null ]
U5 == [ id |-> "5", title |-> <<"t5">>, type |-> "link",
        url |-> <<"https://", "host", "/", "name", ".pdf">>, tags |-> Null,
        uploadDate |-> <<"d5">>, size |-> <<>>, content |-> <<"s5">>,
        message |-> Null ]
R4 == [ id |-> 4, title |-> <<"t4">>, file_url |-> Null,
        summary |-> <<"c4">>, extracted_content |-> Null, created_at |-> <<"d4">> ]
R5 == [ id |-> 5, title |-> <<"t5">>,
        file_url |-> <<"https://", "host", "/", "name", ".pdf">>,
        summary |-> <<"s5">>, extracted_content |-> Null, created_at |-> <<"d5">> ]
ReconcileResponses == { U2, U3, U4, U5 }
ReconcileLists == { <<R2, R1>>, <<R3, R1>>, <<R4, R1>>, <<R5, R1>> }

(* error.message of a rejected request; Null when the error carries none *)
ErrorMessages == { <<"boom">>, Null }

(***************************************************************************)
(* What the user can enter.                                                *)
(***************************************************************************)
QueryChars == {" ", "a"}
QueryInputs == SeqsUpTo(QueryChars, MaxQueryLen)

(* "T" is a visible character, "x" plain text such as not-a-url, "http"    *)
(* the four characters h-t-t-p.                                            *)
TitleInputs == { <<>>, <<" ">>, <<" ", "T">> }
ContentInputs == { <<>>, <<" ">>, <<"x">>, <<" ", "http", "x">> }
SubjectInputs == { <<>>, <<"MBA">> }
availableTags == {"AI"}
NoteTypes == {"TEXT", "LINK", "FILE"}

MaxFileBytes == 10485760                   \* 10 * 1024 * 1024 bytes

NoFile == [name |-> "-"]
SmallPdf == [name |-> "F.pdf", stem |-> <<"F">>, size |-> 1024, type |-> "application/pdf"]
EdgePdf == [name |-> "E.pdf", stem |-> <<"E">>, size |-> MaxFileBytes, type |-> "application/pdf"]
HugePdf == [name |-> "H.pdf", stem |-> <<"H">>, size |-> MaxFileBytes + 1, type |-> "application/pdf"]
HugeZip == [name |-> "Z.zip", stem |-> <<"Z">>, size |-> 2 * MaxFileBytes, type |-> "application/zip"]
SelectableFiles == { SmallPdf, EdgePdf, HugePdf, HugeZip }

(***************************************************************************)
(* State.                                                                  *)
(***************************************************************************)
VARIABLES
    mounted,            \* the mount effect of KnowledgeHub has run
    notes,              \* displayed list
    isLoading,
    searchQuery,
    isSearching,
    listReqs,           \* getNotes / searchResources calls awaiting their answer
    issued,             \* number of list/search requests issued so far
    latestOk,           \* history: latest-issued request answered with success
    lastWriter,         \* history: request whose answer last wrote notes (0: none)
    listSource,         \* history: call and query whose answer the list shows
    toast,              \* notification raised by the step just taken
    lastStep,           \* history: name of the step just taken
    answer,             \* history: records a list request was answered with in that step
    isUploadModalOpen,
    isSubmitting,
    newNote,            \* the draft
    submitPc,           \* position of handleSubmit: idle, uploading, refetching
    uploadReq,          \* FormData handed to uploadFile, awaiting its answer
    uploadResponse,     \* response of uploadFile, kept by the running handleSubmit
    submits,            \* number of uploads issued so far
    shownAtSubmit,      \* history: list displayed when the running upload was issued
    optimisticList,     \* history: list right after the running submit's insert
    draftAtSubmit,      \* history: draft and form state when the upload in flight was issued
    selectedNote,
    isSummaryModalOpen,
    summary,
    isGeneratingSummary,
    summaryError,
    summaryReq,         \* summarizeText call awaiting its answer
    activeNote,         \* App: note of the summary view
    isModalOpen,        \* App
    appSummary,         \* App: summary
    appIsLoading,       \* App: isLoading
    appError,           \* App: error
    appReqs,            \* App: summarizeText calls awaiting their answer
    appIssued,          \* App: number of summarizeText calls so far
    fuFile,             \* FileUpload: file
    fuUploading,        \* FileUpload: uploading
    fuMessage,          \* FileUpload: message
    fuPc,               \* FileUpload: position of handleUpload
    fuReq               \* FileUpload: file handed to uploadToCloudinary / addDoc

listVars == <<mounted, notes, isLoading, searchQuery, isSearching, listReqs,
              issued, latestOk, lastWriter, listSource>>
obsVars == <<toast, lastStep, answer>>
formVars == <<isUploadModalOpen, isSubmitting, newNote, submitPc, uploadReq,
              uploadResponse, submits, shownAtSubmit, optimisticList, draftAtSubmit>>
sumVars == <<selectedNote, isSummaryModalOpen, summary, isGeneratingSummary,
             summaryError, summaryReq>>
appVars == <<activeNote, isModalOpen, appSummary, appIsLoading, appError, appReqs,
             appIssued>>
fuVars == <<fuFile, fuUploading, fuMessage, fuPc, fuReq>>
hubVars == <<listVars, formVars, sumVars>>
vars == <<listVars, obsVars, formVars, sumVars, appVars, fuVars>>

NoNote == [id |-> "-"]
NoAppNote == [id |-> 0]
NoReq == [seq |-> 0]
NoFormData == [type |-> "-"]
NoResponse == [id |-> "-"]

NoDraft == [open |-> FALSE]
NoSource == [fn |-> "none", q |-> <<>>]

EmptyDraft ==
    [ title |-> <<>>, content |-> <<>>, type |-> "TEXT", subject |-> <<>>,
      tags |-> <<>>, file |-> NoFile, is_public |-> FALSE ]

Init ==
    /\ mounted = FALSE
    /\ notes = <<>>
    /\ isLoading = TRUE
    /\ searchQuery = <<>>
    /\ isSearching = FALSE
    /\ listReqs = {}
    /\ issued = 0
    /\ latestOk = [seq |-> 0, result |-> <<>>]
    /\ lastWriter = 0
    /\ listSource = NoSource
    /\ toast = NoToast
    /\ lastStep = "init"
    /\ answer = <<>>
    /\ isUploadModalOpen = FALSE
    /\ isSubmitting = FALSE
    /\ newNote = EmptyDraft
    /\ submitPc = "idle"
    /\ uploadReq = NoFormData
    /\ uploadResponse = NoResponse
    /\ submits = 0
    /\ shownAtSubmit = <<>>
    /\ optimisticList = <<>>
    /\ draftAtSubmit = NoDraft
    /\ selectedNote = NoNote
    /\ isSummaryModalOpen = FALSE
    /\ summary = <<>>
    /\ isGeneratingSummary = FALSE
    /\ summaryError = Null
    /\ summaryReq = NoReq
    /\ activeNote = NoAppNote
    /\ isModalOpen = FALSE
    /\ appSummary = <<>>
    /\ appIsLoading = FALSE
    /\ appError = Null
    /\ appReqs = {}
    /\ appIssued = 0
    /\ fuFile = NoFile
    /\ fuUploading = FALSE
    /\ fuMessage = <<>>
    /\ fuPc = "idle"
    /\ fuReq = NoFile

(* The page itself is reachable: no modal overlay covers it. *)
PageUncovered == mounted /\ ~isUploadModalOpen /\ selectedNote = NoNote

(***************************************************************************)
(* KnowledgeHub: list and search.                                          *)
(***************************************************************************)
(* shown, mode: history, the list displayed and the value of isSearching   *)
(* when the request was issued                                             *)
NoteRequest(seq, fn, origin, q) ==
    [seq |-> seq, fn |-> fn, origin |-> origin, q |-> q, shown |-> notes,
     mode |-> isSearching]

(* history bookkeeping when the answer to request r is applied to notes *)
RecordApplied(r, result) ==
    /\ lastWriter' = r.seq
    /\ listSource' = [fn |-> r.fn, q |-> r.q]
    /\ latestOk' = IF r.seq > latestOk.seq THEN [seq |-> r.seq, result |-> result]
                   ELSE latestOk

(* useEffect(() => { fetchNotes() }, []) up to its await *)
FetchNotes ==
    /\ ~mounted
    /\ mounted' = TRUE
    /\ isLoading' = TRUE
    /\ issued' = issued + 1
    /\ listReqs' = listReqs \cup {NoteRequest(issued + 1, "getNotes", "mount", <<>>)}
    /\ toast' = NoToast
    /\ lastStep' = "FetchNotes"
    /\ answer' = <<>>
    /\ UNCHANGED <<notes, searchQuery, isSearching, latestOk, lastWriter, listSource>>
    /\ UNCHANGED <<formVars, sumVars, appVars, fuVars>>

(* getNotes answered; a TypeError of the map lands in the catch *)
FetchNotesOk(r, backendNotes, now) ==
    /\ r \in listReqs /\ r.origin = "mount"
    /\ listReqs' = listReqs \ {r}
    /\ IF FormatThrows(backendNotes)
       THEN /\ toast' = <<"Failed to load notes">>
            /\ lastStep' = "FetchNotesThrew"
            /\ UNCHANGED <<notes, latestOk, lastWriter, listSource>>
       ELSE /\ notes' = FormatNotes(backendNotes, now)
            /\ RecordApplied(r, backendNotes)
            /\ toast' = NoToast
            /\ lastStep' = "FetchNotesOk"
    /\ isLoading' = FALSE
    /\ answer' = backendNotes
    /\ UNCHANGED <<mounted, searchQuery, isSearching, issued>>
    /\ UNCHANGED <<formVars, sumVars, appVars, fuVars>>

FetchNotesFail(r) ==
    /\ r \in listReqs /\ r.origin = "mount"
    /\ listReqs' = listReqs \ {r}
    /\ isLoading' = FALSE
    /\ toast' = <<"Failed to load notes">>
    /\ lastStep' = "FetchNotesFail"
    /\ answer' = <<>>
    /\ UNCHANGED <<mounted, notes, searchQuery, isSearching, issued, latestOk, lastWriter, listSource>>
    /\ UNCHANGED <<formVars, sumVars, appVars, fuVars>>

TooShort_Untrimmed(query) == Len(query) < 2

(* query.trim().length < 2 *)
TooShort(query) == Len(Trim(query)) < 2

(* handleSearch up to its await; onChange fires when the text changes *)
handleSearch(query) ==
    /\ PageUncovered
    /\ query # searchQuery
    /\ issued < MaxRequests
    /\ searchQuery' = query
    /\ issued' = issued + 1
    /\ IF TooShort(query)
       THEN /\ listReqs' = listReqs \cup {NoteRequest(issued + 1, "getNotes", "search", query)}
            /\ UNCHANGED isSearching
       ELSE /\ isSearching' = TRUE
            /\ listReqs' = listReqs \cup
                   {NoteRequest(issued + 1, "searchResources", "search", query)}
    /\ toast' = NoToast
    /\ lastStep' = "handleSearch"
    /\ answer' = <<>>
    /\ UNCHANGED <<mounted, notes, isLoading, latestOk, lastWriter, listSource>>
    /\ UNCHANGED <<formVars, sumVars, appVars, fuVars>>

(* handleSearch, short query: getNotes answered *)
ListAllOk(r, backendNotes, now) ==
    /\ r \in listReqs /\ r.origin = "search" /\ r.fn = "getNotes"
    /\ listReqs' = listReqs \ {r}
    /\ IF FormatThrows(backendNotes)
       THEN /\ lastStep' = "ListAllThrew"
            /\ UNCHANGED <<notes, isSearching, latestOk, lastWriter, listSource>>
       ELSE /\ notes' = FormatNotes(backendNotes, now)
            /\ isSearching' = FALSE
            /\ RecordApplied(r, backendNotes)
            /\ lastStep' = "ListAllOk"
    /\ toast' = NoToast
    /\ answer' = backendNotes
    /\ UNCHANGED <<mounted, isLoading, searchQuery, issued>>
    /\ UNCHANGED <<formVars, sumVars, appVars, fuVars>>

(* handleSearch, short query: getNotes rejected; the catch only logs *)
ListAllFail(r) ==
    /\ r \in listReqs /\ r.origin = "search" /\ r.fn = "getNotes"
    /\ listReqs' = listReqs \ {r}
    /\ toast' = NoToast
    /\ lastStep' = "ListAllFail"
    /\ answer' = <<>>
    /\ UNCHANGED <<mounted, notes, isLoading, searchQuery, isSearching, issued,
                   latestOk, lastWriter, listSource>>
    /\ UNCHANGED <<formVars, sumVars, appVars, fuVars>>

(* handleSearch, long query: searchResources answered *)
SearchOk(r, results, now) ==
    /\ r \in listReqs /\ r.fn = "searchResources"
    /\ listReqs' = listReqs \ {r}
    /\ IF FormatThrows(results)
       THEN /\ toast' = <<"Search failed">>
            /\ lastStep' = "SearchThrew"
            /\ UNCHANGED <<notes, latestOk, lastWriter, listSource>>
       ELSE /\ notes' = FormatNotes(results, now)
            /\ RecordApplied(r, results)
            /\ toast' = NoToast
            /\ lastStep' = "SearchOk"
    /\ isSearching' = FALSE
    /\ answer' = results
    /\ UNCHANGED <<mounted, isLoading, searchQuery, issued>>
    /\ UNCHANGED <<formVars, sumVars, appVars, fuVars>>

SearchFail_ClearsList(r) ==
    /\ r \in listReqs /\ r.fn = "searchResources"
    /\ listReqs' = listReqs \ {r}
    /\ notes' = <<>>
    /\ isSearching' = FALSE
    /\ toast' = <<"Search failed">>
    /\ lastStep' = "SearchFail"
    /\ answer' = <<>>
    /\ UNCHANGED <<mounted, isLoading, searchQuery, issued, latestOk, lastWriter, listSource>>
    /\ UNCHANGED <<formVars, sumVars, appVars, fuVars>>

(* handleSearch, long query: searchResources rejected *)
SearchFail(r) ==
    /\ r \in listReqs /\ r.fn = "searchResources"
    /\ listReqs' = listReqs \ {r}
    /\ isSearching' = FALSE
    /\ toast' = <<"Search failed">>
    /\ lastStep' = "SearchFail"
    /\ answer' = <<>>
    /\ UNCHANGED <<mounted, notes, isLoading, searchQuery, issued, latestOk, lastWriter, listSource>>
    /\ UNCHANGED <<formVars, sumVars, appVars, fuVars>>

(***************************************************************************)
(* KnowledgeHub: the creation form.                                        *)
(***************************************************************************)
Step(name) == toast' = NoToast /\ lastStep' = name /\ answer' = <<>>

OpenUploadModal ==
    /\ PageUncovered
    /\ isUploadModalOpen' = TRUE
    /\ Step("OpenUploadModal")
    /\ UNCHANGED <<isSubmitting, newNote, submitPc, uploadReq, uploadResponse, submits,
                   shownAtSubmit, optimisticList, draftAtSubmit>>
    /\ UNCHANGED <<listVars, sumVars, appVars, fuVars>>

(* the x button: onClick={() => !isSubmitting && setIsUploadModalOpen(false)} *)
CloseUploadModal ==
    /\ isUploadModalOpen
    /\ isUploadModalOpen' = (IF ~isSubmitting THEN FALSE ELSE isUploadModalOpen)
    /\ Step("CloseUploadModal")
    /\ UNCHANGED <<isSubmitting, newNote, submitPc, uploadReq, uploadResponse, submits,
                   shownAtSubmit, optimisticList, draftAtSubmit>>
    /\ UNCHANGED <<listVars, sumVars, appVars, fuVars>>

(* the Cancel button: onClick={() => setIsUploadModalOpen(false)} *)
CancelUpload ==
    /\ isUploadModalOpen
    /\ isUploadModalOpen' = FALSE
    /\ Step("CancelUpload")
    /\ UNCHANGED <<isSubmitting, newNote, submitPc, uploadReq, uploadResponse, submits,
                   shownAtSubmit, optimisticList, draftAtSubmit>>
    /\ UNCHANGED <<listVars, sumVars, appVars, fuVars>>

EditDraft(name, draft) ==
    /\ isUploadModalOpen
    /\ newNote' = draft
    /\ Step(name)
    /\ UNCHANGED <<isUploadModalOpen, isSubmitting, submitPc, uploadReq, uploadResponse,
                   submits, shownAtSubmit, optimisticList, draftAtSubmit>>
    /\ UNCHANGED <<listVars, sumVars, appVars, fuVars>>

SetType_KeepsOther(type) ==
    /\ isUploadModalOpen
    /\ EditDraft("SetType", [newNote EXCEPT !.type = type])

SetType_KeepsContent(type) ==
    /\ isUploadModalOpen
    /\ EditDraft("SetType",
                 [newNote EXCEPT !.type = type,
                                 !.file = IF type # "FILE" THEN NoFile ELSE @])

(* note type buttons *)
SetType(type) ==
    /\ isUploadModalOpen
    /\ EditDraft("SetType",
                 [newNote EXCEPT !.type = type,
                                 !.file = IF type # "FILE" THEN NoFile ELSE @,
                                 !.content = IF type = "FILE" THEN <<>> ELSE @])

SetTitle(value) ==
    /\ isUploadModalOpen
    /\ EditDraft("SetTitle", [newNote EXCEPT !.title = value])

(* e.target.value of the URL input (LINK): an input of type url strips      *)
(* leading and trailing blanks from what is entered; the textarea (TEXT)   *)
(* hands the text over as entered                                          *)
EnteredContent(type, value) == IF type = "LINK" THEN Trim(value) ELSE value

SetContent(value) ==
    /\ newNote.type \in {"LINK", "TEXT"}
    /\ EditDraft("SetContent",
                 [newNote EXCEPT !.content = EnteredContent(newNote.type, value)])

SetSubject(value) ==
    /\ isUploadModalOpen
    /\ EditDraft("SetSubject", [newNote EXCEPT !.subject = value])

(* prev.tags.includes(tag) ? prev.tags.filter(t => t !== tag) : [...prev.tags, tag] *)
ToggledTags(tags, tag) ==
    IF \E i \in 1..Len(tags) : tags[i] = tag
    THEN SelectSeq(tags, LAMBDA t : t # tag)
    ELSE Append(tags, tag)

ToggleTag(tag) ==
    /\ isUploadModalOpen
    /\ EditDraft("ToggleTag", [newNote EXCEPT !.tags = ToggledTags(@, tag)])

SetPublic(checked) ==
    /\ isUploadModalOpen
    /\ EditDraft("SetPublic", [newNote EXCEPT !.is_public = checked])

FileTooLarge_Lenient(file) == file.size > 2 * MaxFileBytes

(* file.size > 10 * 1024 * 1024 *)
FileTooLarge(file) == file.size > MaxFileBytes

(* files: the FileList of the change event, empty or one file *)
handleFileUpload(files) ==
    /\ isUploadModalOpen
    /\ newNote.type = "FILE"
    /\ IF Len(files) = 0
       THEN /\ Step("handleFileUpload")
            /\ UNCHANGED newNote
       ELSE IF FileTooLarge(files[1])
       THEN /\ toast' = <<"File size should be less than 10MB">>
            /\ lastStep' = "handleFileUpload"
            /\ answer' = <<>>
            /\ UNCHANGED newNote
       ELSE /\ newNote' = [newNote EXCEPT !.file = files[1],
                                          !.title = OrElse(@, files[1].stem)]
            /\ Step("handleFileUpload")
    /\ UNCHANGED <<isUploadModalOpen, isSubmitting, submitPc, uploadReq, uploadResponse,
                   submits, shownAtSubmit, optimisticList, draftAtSubmit>>
    /\ UNCHANGED <<listVars, sumVars, appVars, fuVars>>

ValidationError_NoUrlCheck(draft) ==
    IF ~Truthy(Trim(draft.title)) THEN <<"Please enter a title">>
    ELSE IF draft.type = "TEXT" /\ ~Truthy(Trim(draft.content))
        THEN <<"Please enter text content">>
    ELSE IF draft.type = "FILE" /\ draft.file = NoFile
        THEN <<"Please upload a file">>
    ELSE Null

(* the four validation checks of handleSubmit, in order; Null when valid *)
ValidationError(draft) ==
    IF ~Truthy(Trim(draft.title)) THEN <<"Please enter a title">>
    ELSE IF draft.type = "LINK"
            /\ (~Truthy(draft.content) \/ ~StartsWithAny(Trim(draft.content), {"http"}))
        THEN <<"Please enter a valid URL">>
    ELSE IF draft.type = "TEXT" /\ ~Truthy(Trim(draft.content))
        THEN <<"Please enter text content">>
    ELSE IF draft.type = "FILE" /\ draft.file = NoFile
        THEN <<"Please upload a file">>
    ELSE Null

(* the FormData built by handleSubmit; Null / NoFile: the part is not appended *)
BuildFormData(draft) ==
    [ title |-> Trim(draft.title),
      type |-> draft.type,
      subject |-> OrElse(draft.subject, <<>>),
      is_public |-> draft.is_public,
      tags |-> IF Len(draft.tags) > 0 THEN draft.tags ELSE Null,
      file |-> IF draft.type = "FILE" /\ draft.file # NoFile THEN draft.file ELSE NoFile,
      content |-> IF Truthy(draft.content) /\ Truthy(Trim(draft.content))
                  THEN Trim(draft.content) ELSE Null ]

(* handleSubmit up to its first await *)
handleSubmit ==
    /\ isUploadModalOpen
    /\ ~isSubmitting
    /\ IF ValidationError(newNote) # Null
       THEN /\ toast' = ValidationError(newNote)
            /\ lastStep' = "handleSubmitInvalid"
            /\ answer' = <<>>
            /\ UNCHANGED <<isSubmitting, submitPc, uploadReq, submits, shownAtSubmit,
                           draftAtSubmit>>
       ELSE /\ submits < MaxSubmits
            /\ shownAtSubmit' = notes
            /\ draftAtSubmit' = [open |-> isUploadModalOpen, draft |-> newNote]
            /\ isSubmitting' = TRUE
            /\ submitPc' = "uploading"
            /\ uploadReq' = BuildFormData(newNote)
            /\ submits' = submits + 1
            /\ Step("handleSubmit")
    /\ UNCHANGED <<isUploadModalOpen, newNote, uploadResponse, optimisticList>>
    /\ UNCHANGED <<listVars, sumVars, appVars, fuVars>>

(* uploadFile answered: optimistic insert, then getNotes is called *)
UploadOk(response, now) ==
    /\ submitPc = "uploading"
    /\ uploadReq' = NoFormData
    /\ uploadResponse' = response
    /\ notes' = PrependNote(UploadedNote(response, now), notes)
    /\ optimisticList' = notes'
    /\ lastWriter' = 0
    /\ UNCHANGED listSource
    /\ submitPc' = "refetching"
    /\ Step("UploadOk")
    /\ draftAtSubmit' = NoDraft
    /\ UNCHANGED <<isUploadModalOpen, isSubmitting, newNote, submits, shownAtSubmit>>
    /\ UNCHANGED <<mounted, isLoading, searchQuery, isSearching, listReqs, issued, latestOk>>
    /\ UNCHANGED <<sumVars, appVars, fuVars>>

UploadFail_ResetsDraft(message) ==
    /\ submitPc = "uploading"
    /\ uploadReq' = NoFormData
    /\ toast' = OrElse(message, <<"Failed to upload note. Please try again.">>)
    /\ lastStep' = "UploadFail"
    /\ answer' = <<>>
    /\ isSubmitting' = FALSE
    /\ submitPc' = "idle"
    /\ shownAtSubmit' = <<>>
    /\ draftAtSubmit' = NoDraft
    /\ newNote' = EmptyDraft
    /\ UNCHANGED <<isUploadModalOpen, uploadResponse, submits, optimisticList>>
    /\ UNCHANGED <<listVars, sumVars, appVars, fuVars>>

UploadFail_StaysSubmitting(message) ==
    /\ submitPc = "uploading"
    /\ uploadReq' = NoFormData
    /\ toast' = OrElse(message, <<"Failed to upload note. Please try again.">>)
    /\ lastStep' = "UploadFail"
    /\ answer' = <<>>
    /\ submitPc' = "idle"
    /\ shownAtSubmit' = <<>>
    /\ draftAtSubmit' = NoDraft
    /\ UNCHANGED <<isUploadModalOpen, isSubmitting, newNote, uploadResponse, submits,
                   optimisticList>>
    /\ UNCHANGED <<listVars, sumVars, appVars, fuVars>>

(* uploadFile rejected: catch and finally of handleSubmit *)
UploadFail(message) ==
    /\ submitPc = "uploading"
    /\ uploadReq' = NoFormData
    /\ toast' = OrElse(message, <<"Failed to upload note. Please try again.">>)
    /\ lastStep' = "UploadFail"
    /\ answer' = <<>>
    /\ isSubmitting' = FALSE
    /\ submitPc' = "idle"
    /\ shownAtSubmit' = <<>>
    /\ draftAtSubmit' = NoDraft
    /\ UNCHANGED <<isUploadModalOpen, newNote, uploadResponse, submits, optimisticList>>
    /\ UNCHANGED <<listVars, sumVars, appVars, fuVars>>

(* the rest of handleSubmit once the re-fetch has settled *)
FinishSubmit ==
    /\ isUploadModalOpen' = FALSE
    /\ newNote' = EmptyDraft
    /\ toast' = OrElse(uploadResponse.message, <<"Note saved successfully!">>)
    /\ isSubmitting' = FALSE
    /\ submitPc' = "idle"
    /\ uploadResponse' = NoResponse
    /\ shownAtSubmit' = <<>>
    /\ optimisticList' = <<>>
    /\ UNCHANGED <<uploadReq, submits, draftAtSubmit>>

RefetchedNotes_KeepProvisional(prevNotes, formattedNotes) ==
    IF prevNotes = <<>> THEN formattedNotes ELSE <<prevNotes[1]>> \o formattedNotes

(* setNotes(formattedNotes) of the re-fetch *)
RefetchedNotes(prevNotes, formattedNotes) == formattedNotes

(* the re-fetch answered *)
RefetchOk(backendNotes, now) ==
    /\ submitPc = "refetching"
    /\ IF FormatThrows(backendNotes)
       THEN /\ lastStep' = "RefetchThrew"
            /\ UNCHANGED <<notes, lastWriter, listSource>>
       ELSE /\ notes' = RefetchedNotes(notes, FormatNotes(backendNotes, now))
            /\ lastWriter' = 0
            /\ listSource' = [fn |-> "getNotes", q |-> <<>>]
            /\ lastStep' = "RefetchOk"
    /\ answer' = backendNotes
    /\ FinishSubmit
    /\ UNCHANGED <<mounted, isLoading, searchQuery, isSearching, listReqs, issued, latestOk>>
    /\ UNCHANGED <<sumVars, appVars, fuVars>>

(* the re-fetch rejected: the inner catch only logs *)
RefetchFail ==
    /\ submitPc = "refetching"
    /\ lastStep' = "RefetchFail"
    /\ answer' = <<>>
    /\ FinishSubmit
    /\ UNCHANGED <<listVars, sumVars, appVars, fuVars>>

(***************************************************************************)
(* The summary service.                                                    *)
(***************************************************************************)
SummaryTexts == { <<"sumA">>, <<"sumB">> }

(* how a summary request can be rejected: by the server, with or without a *)
(* detail, or by the network                                               *)
SummaryFailures ==
    { [response |-> TRUE, detail |-> <<"quota exceeded">>, message |-> <<"status 500">>],
      [response |-> TRUE, detail |-> Null, message |-> <<"status 500">>],
      [response |-> FALSE, detail |-> Null, message |-> <<"Network Error">>] }

(* message of the error generateSummary throws *)
generateSummaryError(failure) ==
    IF failure.response
    THEN OrElse(failure.detail, <<"Failed to generate summary">>)
    ELSE failure.message

(* message of the error summarizeText throws *)
summarizeTextError(failure) == <<"Failed to get summary. Please try again.">>

MaxNoteId == 9

(* parseInt(note.id); -1 stands for NaN *)
ParseInt(str) ==
    IF \E n \in 0..MaxNoteId : ToString(n) = str
    THEN CHOOSE n \in 0..MaxNoteId : ToString(n) = str
    ELSE -1

NotesShown == IF isLoading THEN {} ELSE {notes[i] : i \in 1..Len(notes)}

(***************************************************************************)
(* KnowledgeHub: AI summary and note detail.                               *)
(***************************************************************************)
(* const text = note.content || note.summary || `Summarize the document: ...` *)
SummaryInput(note) ==
    OrElse(note.content, OrElse(note.summary, <<"Summarize the document: ">> \o note.title))

(* the AI Summary button: shown when note.content, disabled={isGeneratingSummary} *)
handleGenerateSummary(note) ==
    /\ PageUncovered
    /\ note \in NotesShown
    /\ Truthy(note.content)
    /\ ~isGeneratingSummary
    /\ selectedNote' = note
    /\ isSummaryModalOpen' = TRUE
    /\ isGeneratingSummary' = TRUE
    /\ summaryError' = Null
    /\ summary' = <<>>
    /\ summaryReq' = [seq |-> 1, noteId |-> ParseInt(note.id), text |-> SummaryInput(note),
                      shown |-> notes]
    /\ Step("handleGenerateSummary")
    /\ UNCHANGED <<listVars, formVars, appVars, fuVars>>

SummaryOk(result) ==
    /\ summaryReq # NoReq
    /\ summaryReq' = NoReq
    /\ summary' = result
    /\ isGeneratingSummary' = FALSE
    /\ Step("SummaryOk")
    /\ UNCHANGED <<selectedNote, isSummaryModalOpen, summaryError>>
    /\ UNCHANGED <<listVars, formVars, appVars, fuVars>>

SummaryFail(failure) ==
    /\ summaryReq # NoReq
    /\ summaryReq' = NoReq
    /\ summaryError' = OrElse(summarizeTextError(failure),
                              <<"Failed to generate summary. Please try again.">>)
    /\ isGeneratingSummary' = FALSE
    /\ Step("SummaryFail")
    /\ UNCHANGED <<selectedNote, isSummaryModalOpen, summary>>
    /\ UNCHANGED <<listVars, formVars, appVars, fuVars>>

CloseSummary_StopsGenerating ==
    /\ isSummaryModalOpen /\ selectedNote # NoNote
    /\ isSummaryModalOpen' = FALSE
    /\ selectedNote' = NoNote
    /\ summary' = <<>>
    /\ summaryError' = Null
    /\ isGeneratingSummary' = FALSE
    /\ Step("CloseSummary")
    /\ UNCHANGED summaryReq
    /\ UNCHANGED <<listVars, formVars, appVars, fuVars>>

(* SummaryModal onClose; the modal is rendered when isSummaryModalOpen && selectedNote *)
CloseSummary ==
    /\ isSummaryModalOpen /\ selectedNote # NoNote
    /\ isSummaryModalOpen' = FALSE
    /\ selectedNote' = NoNote
    /\ summary' = <<>>
    /\ summaryError' = Null
    /\ Step("CloseSummary")
    /\ UNCHANGED <<isGeneratingSummary, summaryReq>>
    /\ UNCHANGED <<listVars, formVars, appVars, fuVars>>

(* the View Content button of a text note *)
ViewContent(note) ==
    /\ PageUncovered
    /\ note \in NotesShown
    /\ ~(note.type \in {"url", "pdf", "docx", "image"} /\ Truthy(note.url)
         /\ note.url # Sentinel)
    /\ note.type = "other" /\ Truthy(note.content)
    /\ selectedNote' = note
    /\ Step("ViewContent")
    /\ UNCHANGED <<isSummaryModalOpen, summary, isGeneratingSummary, summaryError,
                   summaryReq>>
    /\ UNCHANGED <<listVars, formVars, appVars, fuVars>>

(* the x button of the note detail modal, which the summary modal covers *)
CloseDetail ==
    /\ selectedNote # NoNote /\ ~isSummaryModalOpen
    /\ selectedNote' = NoNote
    /\ Step("CloseDetail")
    /\ UNCHANGED <<isSummaryModalOpen, summary, isGeneratingSummary, summaryError,
                   summaryReq>>
    /\ UNCHANGED <<listVars, formVars, appVars, fuVars>>

(***************************************************************************)
(* App: the summary view opened from a note card.                          *)
(***************************************************************************)
AppNote1 == [id |-> 1, title |-> <<"React Hooks Cheatsheet">>, content |-> <<"hooks">>]
AppNote2 == [id |-> 2, title |-> <<"Data Structures in Python">>, content |-> <<"ds">>]
AppNotes == { AppNote1, AppNote2 }

(* handleOpenSummary up to its await; the open modal covers the note cards *)
handleOpenSummary(note) ==
    /\ ~isModalOpen
    /\ appIssued < MaxAppRequests
    /\ activeNote' = note
    /\ isModalOpen' = TRUE
    /\ appIsLoading' = TRUE
    /\ appError' = Null
    /\ appSummary' = <<>>
    /\ appIssued' = appIssued + 1
    /\ appReqs' = appReqs \cup {[seq |-> appIssued + 1, noteId |-> note.id,
                                 text |-> note.content]}
    /\ Step("handleOpenSummary")
    /\ UNCHANGED <<hubVars, fuVars>>

AppSummaryOk(r, result) ==
    /\ r \in appReqs
    /\ appReqs' = appReqs \ {r}
    /\ appSummary' = result
    /\ appIsLoading' = FALSE
    /\ Step("AppSummaryOk")
    /\ UNCHANGED <<activeNote, isModalOpen, appError, appIssued>>
    /\ UNCHANGED <<hubVars, fuVars>>

AppSummaryFail(r, failure) ==
    /\ r \in appReqs
    /\ appReqs' = appReqs \ {r}
    /\ appError' = <<"Failed to generate summary. Please try again.">>
    /\ appIsLoading' = FALSE
    /\ Step("AppSummaryFail")
    /\ UNCHANGED <<activeNote, isModalOpen, appSummary, appIssued>>
    /\ UNCHANGED <<hubVars, fuVars>>

handleCloseModal ==
    /\ isModalOpen
    /\ isModalOpen' = FALSE
    /\ activeNote' = NoAppNote
    /\ Step("handleCloseModal")
    /\ UNCHANGED <<appSummary, appIsLoading, appError, appReqs, appIssued>>
    /\ UNCHANGED <<hubVars, fuVars>>

(***************************************************************************)
(* FileUpload component.                                                   *)
(***************************************************************************)
allowedTypes ==
    { "application/pdf",
      "application/vnd.openxmlformats-officedocument.wordprocessingml.document",
      "image/jpeg", "image/png" }

(* setFile(e.target.files?.[0] || null) *)
handleFileChange(files) ==
    /\ fuFile' = IF Len(files) = 0 THEN NoFile ELSE files[1]
    /\ Step("handleFileChange")
    /\ UNCHANGED <<fuUploading, fuMessage, fuPc, fuReq>>
    /\ UNCHANGED <<hubVars, appVars>>

(* file.size > 10 * 1024 * 1024 *)
FuFileTooLarge(file) == file.size > MaxFileBytes

(* handleUpload up to its first await; the button is disabled while uploading *)
handleUpload ==
    /\ ~fuUploading
    /\ IF fuFile = NoFile
       THEN /\ fuMessage' = <<"Please select a file first!">>
            /\ UNCHANGED <<fuUploading, fuPc, fuReq>>
       ELSE IF fuFile.type \notin allowedTypes
       THEN /\ fuMessage' = <<"Invalid file type. Please upload PDF, DOCX, JPG, or PNG.">>
            /\ UNCHANGED <<fuUploading, fuPc, fuReq>>
       ELSE IF FuFileTooLarge(fuFile)
       THEN /\ fuMessage' = <<"File too large. Max 10MB allowed.">>
            /\ UNCHANGED <<fuUploading, fuPc, fuReq>>
       ELSE /\ fuMessage' = <<"Uploading...">>
            /\ fuUploading' = TRUE
            /\ fuPc' = "cloudinary"
            /\ fuReq' = fuFile
    /\ Step("handleUpload")
    /\ UNCHANGED fuFile
    /\ UNCHANGED <<hubVars, appVars>>

(* uploadToCloudinary answered; addDoc is called *)
CloudinaryOk ==
    /\ fuPc = "cloudinary"
    /\ fuPc' = "addDoc"
    /\ Step("CloudinaryOk")
    /\ UNCHANGED <<fuFile, fuUploading, fuMessage, fuReq>>
    /\ UNCHANGED <<hubVars, appVars>>

AddDocOk ==
    /\ fuPc = "addDoc"
    /\ fuPc' = "idle"
    /\ fuReq' = NoFile
    /\ fuMessage' = <<"File uploaded successfully!">>
    /\ fuFile' = NoFile
    /\ fuUploading' = FALSE
    /\ Step("AddDocOk")
    /\ UNCHANGED <<hubVars, appVars>>

(* uploadToCloudinary or addDoc rejected *)
FuUploadFail(message) ==
    /\ fuPc \in {"cloudinary", "addDoc"}
    /\ fuPc' = "idle"
    /\ fuReq' = NoFile
    /\ fuMessage' = <<"Upload failed. ">> \o OrElse(message, <<"Try again!">>)
    /\ fuUploading' = FALSE
    /\ Step("FuUploadFail")
    /\ UNCHANGED fuFile
    /\ UNCHANGED <<hubVars, appVars>>

(***************************************************************************)
(* Specifications.                                                         *)
(***************************************************************************)
ListNext ==
    \/ FetchNotes
    \/ \E q \in QueryInputs : handleSearch(q)
    \/ \E r \in listReqs, b \in ListResponses, now \in Times : FetchNotesOk(r, b, now)
    \/ \E r \in listReqs : FetchNotesFail(r)
    \/ \E r \in listReqs, b \in ListResponses, now \in Times : ListAllOk(r, b, now)
    \/ \E r \in listReqs : ListAllFail(r)
    \/ \E r \in listReqs, b \in ListResponses, now \in Times : SearchOk(r, b, now)
    \/ \E r \in listReqs : SearchFail(r)

FormNext ==
    \/ OpenUploadModal
    \/ CloseUploadModal
    \/ CancelUpload
    \/ \E t \in NoteTypes : SetType(t)
    \/ \E v \in TitleInputs : SetTitle(v)
    \/ \E v \in ContentInputs : SetContent(v)
    \/ \E v \in SubjectInputs : SetSubject(v)
    \/ \E tag \in availableTags : ToggleTag(tag)
    \/ \E c \in BOOLEAN : SetPublic(c)
    \/ \E files \in SeqsUpTo(SelectableFiles, 1) : handleFileUpload(files)

SubmitNext ==
    \/ handleSubmit
    \/ \E response \in UploadResponses, now \in Times : UploadOk(response, now)
    \/ \E message \in ErrorMessages : UploadFail(message)
    \/ \E b \in ListResponses, now \in Times : RefetchOk(b, now)
    \/ RefetchFail

SummaryNext ==
    \/ \E i \in 1..Len(notes) : handleGenerateSummary(notes[i])
    \/ \E result \in SummaryTexts : SummaryOk(result)
    \/ \E failure \in SummaryFailures : SummaryFail(failure)
    \/ CloseSummary
    \/ \E i \in 1..Len(notes) : ViewContent(notes[i])
    \/ CloseDetail

AppNext ==
    \/ \E note \in AppNotes : handleOpenSummary(note)
    \/ \E r \in appReqs, result \in SummaryTexts : AppSummaryOk(r, result)
    \/ \E r \in appReqs, failure \in SummaryFailures : AppSummaryFail(r, failure)
    \/ handleCloseModal

FileUploadNext ==
    \/ \E files \in SeqsUpTo(SelectableFiles, 1) : handleFileChange(files)
    \/ handleUpload
    \/ CloudinaryOk
    \/ AddDocOk
    \/ \E message \in ErrorMessages : FuUploadFail(message)

(* the mount-time fetch alone *)
MountNext ==
    \/ FetchNotes
    \/ \E r \in listReqs, b \in ListResponses, now \in Times : FetchNotesOk(r, b, now)
    \/ \E r \in listReqs : FetchNotesFail(r)

(* the shortest way through the form to a valid draft *)
QuickFormNext ==
    \/ OpenUploadModal
    \/ CancelUpload
    \/ \E v \in TitleInputs : SetTitle(v)
    \/ \E v \in ContentInputs : SetContent(v)

(* the controls of the form that decide validity and the file *)
FormCoreNext ==
    \/ OpenUploadModal
    \/ CloseUploadModal
    \/ CancelUpload
    \/ \E t \in NoteTypes : SetType(t)
    \/ \E v \in TitleInputs : SetTitle(v)
    \/ \E v \in ContentInputs : SetContent(v)
    \/ \E files \in SeqsUpTo(SelectableFiles, 1) : handleFileUpload(files)

(* the controls of the form that lead to a file upload *)
FileFormNext ==
    \/ OpenUploadModal
    \/ CancelUpload
    \/ \E t \in NoteTypes : SetType(t)
    \/ \E files \in SeqsUpTo(SelectableFiles, 1) : handleFileUpload(files)

(* the search controller: mount-time fetch and handleSearch *)
Next == ListNext
Spec == Init /\ [][Next]_vars

(* creation of a resource and its reconciliation with the mount-time fetch *)
NextSubmit == MountNext \/ QuickFormNext \/ SubmitNext
SpecSubmit == Init /\ [][NextSubmit]_vars

(* the creation form *)
NextForm == MountNext \/ FormCoreNext \/ SubmitNext
SpecForm == Init /\ [][NextForm]_vars

(* every path of a file to the network; the list answers, which no file    *)
(* depends on, are kept to one                                             *)
NextFiles ==
    \/ FetchNotes
    \/ \E r \in listReqs, now \in Times : FetchNotesOk(r, <<R1>>, now)
    \/ \E r \in listReqs : FetchNotesFail(r)
    \/ FileFormNext
    \/ handleSubmit
    \/ \E response \in UploadResponses, now \in Times : UploadOk(response, now)
    \/ \E message \in ErrorMessages : UploadFail(message)
    \/ \E now \in Times : RefetchOk(<<R1>>, now)
    \/ RefetchFail
    \/ FileUploadNext
SpecFiles == Init /\ [][NextFiles]_vars

(* everything that writes the resource list, and the summary view; at most *)
(* MaxHubRequests list requests, and one draft                             *)
MaxHubRequests == 2

NextHub ==
    \/ FetchNotes
    \/ \E r \in listReqs, b \in ListResponses, now \in Times : FetchNotesOk(r, b, now)
    \/ \E r \in listReqs : FetchNotesFail(r)
    \/ \E q \in {<<"a">>, <<"a", "a">>} : issued < MaxHubRequests /\ handleSearch(q)
    \/ \E r \in listReqs, b \in ListResponses, now \in Times : ListAllOk(r, b, now)
    \/ \E r \in listReqs : ListAllFail(r)
    \/ \E r \in listReqs, b \in ListResponses, now \in Times : SearchOk(r, b, now)
    \/ \E r \in listReqs : SearchFail(r)
    \/ OpenUploadModal
    \/ SetTitle(<<" ", "T">>)
    \/ SetContent(<<"x">>)
    \/ SubmitNext
    \/ SummaryNext
SpecHub == Init /\ [][NextHub]_vars

(* the two summary views *)
NextSummary == MountNext \/ SummaryNext \/ AppNext
SpecSummary == Init /\ [][NextSummary]_vars

(* the normalizer, applied by the mount-time fetch to records of any shape *)
NextNormalize ==
    \/ FetchNotes
    \/ \E r \in listReqs, b \in RawLists, now \in Times : FetchNotesOk(r, b, now)
    \/ \E r \in listReqs : FetchNotesFail(r)
SpecNormalize == Init /\ [][NextNormalize]_vars

(* search and creation when every request is answered with success *)
NextAllOk ==
    \/ FetchNotes
    \/ \E r \in listReqs, b \in ListResponses, now \in Times : FetchNotesOk(r, b, now)
    \/ \E q \in {<<"a">>, <<"a", "a">>} : issued < MaxHubRequests /\ handleSearch(q)
    \/ \E r \in listReqs, b \in ListResponses, now \in Times : ListAllOk(r, b, now)
    \/ \E r \in listReqs, b \in ListResponses, now \in Times : SearchOk(r, b, now)
    \/ OpenUploadModal
    \/ SetTitle(<<" ", "T">>)
    \/ SetContent(<<"x">>)
    \/ handleSubmit
    \/ \E response \in UploadResponses, now \in Times : UploadOk(response, now)
    \/ \E b \in ListResponses, now \in Times : RefetchOk(b, now)
SpecAllOk == Init /\ [][NextAllOk]_vars

(* creation of a resource, every request being answered in the end *)
ResolveUpload ==
    \/ \E response \in UploadResponses, now \in Times : UploadOk(response, now)
    \/ \E message \in ErrorMessages : UploadFail(message)
ResolveRefetch ==
    \/ \E b \in ListResponses, now \in Times : RefetchOk(b, now)
    \/ RefetchFail
SpecSubmitLive ==
    Init /\ [][NextSubmit]_vars /\ WF_vars(ResolveUpload) /\ WF_vars(ResolveRefetch)

(* creation of a resource that the re-fetch brings back *)
NextReconcile ==
    \/ FetchNotes
    \/ \E r \in listReqs, now \in Times : FetchNotesOk(r, <<R1>>, now)
    \/ \E r \in listReqs : FetchNotesFail(r)
    \/ QuickFormNext
    \/ handleSubmit
    \/ \E response \in ReconcileResponses, now \in Times : UploadOk(response, now)
    \/ \E message \in ErrorMessages : UploadFail(message)
    \/ \E b \in ReconcileLists, now \in Times : RefetchOk(b, now)
    \/ RefetchFail
SpecReconcile == Init /\ [][NextReconcile]_vars

(***************************************************************************)
(* Properties.                                                             *)
(***************************************************************************)

(* C1: once every list/search request has been answered, the displayed     *)
(* list is the normalization of the answer to the latest-issued request    *)
(* that succeeded, whatever the order in which the answers arrived.        *)
C1_LatestIssuedWins ==
    (listReqs = {} /\ lastWriter # 0)
        => \E now \in Times : notes = FormatNotes(latestOk.result, now)

(* C8: a call of handleSearch(q) adds exactly one request, getNotes when   *)
(* the trimmed query is shorter than 2 and searchResources(q) otherwise.   *)
C8_OneRequestPerSearch ==
    [][lastStep' = "handleSearch" =>
          \E r \in listReqs' :
              /\ r \notin listReqs
              /\ listReqs' = listReqs \cup {r}
              /\ r.q = searchQuery'
              /\ r.fn = IF Len(Trim(searchQuery')) < 2 THEN "getNotes"
                        ELSE "searchResources"]_vars

(* a blank-padded one-character query has gone out as a list-all request *)
C8_Witness ==
    /\ lastStep = "handleSearch"
    /\ searchQuery = <<" ", "a">>
    /\ \E r \in listReqs : r.seq = issued /\ r.q = searchQuery /\ r.fn = "getNotes"

(* C9: a request of the search controller that fails raises a notification *)
C9_SearchFailuresNotify ==
    lastStep \in {"ListAllFail", "SearchFail"} => toast # NoToast

(* C3: the step in which the upload is answered, and in which the re-fetch *)
(* is issued, puts the provisional entry (id and title of the response) in *)
(* front of the list as it was, order unchanged.                           *)
C3_OptimisticInsertFirst ==
    [][(submitPc = "uploading" /\ submitPc' = "refetching") =>
          /\ Len(notes') = Len(notes) + 1
          /\ notes'[1].id = uploadResponse'.id
          /\ notes'[1].title = uploadResponse'.title
          /\ SubSeq(notes', 2, Len(notes')) = notes]_vars

(* the provisional entry heads a list that was not empty *)
C3_Witness ==
    /\ submitPc = "refetching"
    /\ lastStep = "UploadOk"
    /\ Len(notes) >= 2
    /\ notes[1].id = uploadResponse.id
    /\ notes[2].id # uploadResponse.id

(* C4: when the submit flow ends on a failed re-fetch, the list is still   *)
(* the provisional entry followed by the entries it was inserted before.   *)
C4_ProvisionalKeptOnRefetchFailure ==
    [][lastStep' = "RefetchFail" => notes' = optimisticList]_vars

(* C5: when the re-fetch is answered, the list is exactly the              *)
(* normalization of the re-fetched records.                                *)
C5_RefetchReplacesList ==
    lastStep = "RefetchOk" => \E now \in Times : notes = FormatNotes(answer, now)

(* the re-fetch brought three records back and the submit flow has ended   *)
C5_Witness ==
    /\ lastStep = "RefetchOk"
    /\ Len(answer) = 3 /\ Len(notes) = 3
    /\ \A i \in 1..3 : notes[i].id = ToString(answer[i].id)
    /\ submitPc = "idle" /\ ~isSubmitting

(* C2: the answer to a summary request made for a resource other than the *)
(* one whose summary view is open changes neither the loading flag, nor    *)
(* the summary text, nor the error message of the open view.               *)
C2_StaleSummaryIgnored ==
    [][/\ \A r \in appReqs :
             (r \notin appReqs' /\ isModalOpen /\ activeNote.id # r.noteId)
                 => UNCHANGED <<appIsLoading, appSummary, appError>>
       /\ (/\ summaryReq # NoReq /\ summaryReq' = NoReq
           /\ isSummaryModalOpen /\ selectedNote # NoNote
           /\ ParseInt(selectedNote.id) # summaryReq.noteId)
              => UNCHANGED <<isGeneratingSummary, summary, summaryError>>]_vars

(* C6 as claimed: a handleSubmit on a draft with a blank title, a LINK     *)
(* content that is empty or does not start with http, a blank TEXT content *)
(* or a FILE draft without file changes neither the upload request, nor    *)
(* the list, nor the draft.                                                *)
StartsWithHttp(str) == str # <<>> /\ Head(str) = "http"

SubmitLeavesAllAlone ==
    /\ uploadReq' = uploadReq /\ submitPc' = submitPc /\ submits' = submits
    /\ notes' = notes /\ newNote' = newNote

SubmitStep == lastStep' \in {"handleSubmit", "handleSubmitInvalid"}

C6_InvalidAsClaimed ==
    [][(/\ SubmitStep
        /\ \/ Trim(newNote.title) = <<>>
           \/ newNote.type = "LINK"
                /\ (newNote.content = <<>> \/ ~StartsWithHttp(newNote.content))
           \/ newNote.type = "TEXT" /\ Trim(newNote.content) = <<>>
           \/ newNote.type = "FILE" /\ newNote.file = NoFile)
          => SubmitLeavesAllAlone]_vars

(* C6, amended: the same, a LINK content being judged after trimming.      *)
C6_InvalidDraftStaysLocal ==
    [][(/\ SubmitStep
        /\ \/ Trim(newNote.title) = <<>>
           \/ newNote.type = "LINK"
                /\ (newNote.content = <<>> \/ ~StartsWithHttp(Trim(newNote.content)))
           \/ newNote.type = "TEXT" /\ Trim(newNote.content) = <<>>
           \/ newNote.type = "FILE" /\ newNote.file = NoFile)
          => SubmitLeavesAllAlone]_vars

(* a LINK draft holding not-a-url was submitted and nothing went out *)
C6_Witness ==
    /\ lastStep = "handleSubmitInvalid"
    /\ toast = <<"Please enter a valid URL">>
    /\ newNote.type = "LINK" /\ newNote.content = <<"x">>
    /\ uploadReq = NoFormData /\ submitPc = "idle" /\ submits = 0

(* C7: the draft's file and the file of every upload in flight are at most *)
(* 10 MiB, and a selection that is rejected leaves the draft as it was.    *)
C7_NoOversizedFileSent ==
    /\ [](/\ newNote.file # NoFile => newNote.file.size <= 10 * 1024 * 1024
          /\ (uploadReq # NoFormData /\ uploadReq.file # NoFile)
                => uploadReq.file.size <= 10 * 1024 * 1024
          /\ fuReq # NoFile => fuReq.size <= 10 * 1024 * 1024)
    /\ [][(lastStep' = "handleFileUpload" /\ toast' # NoToast) => newNote' = newNote]_vars

(* a file of exactly 10 MiB is in the draft, a selection was just rejected, *)
(* and the FileUpload component holds an oversized file it has not sent     *)
C7_Witness ==
    /\ lastStep = "handleFileUpload"
    /\ toast = <<"File size should be less than 10MB">>
    /\ newNote.file # NoFile /\ newNote.file.size = 10 * 1024 * 1024
    /\ fuFile # NoFile /\ fuFile.size > 10 * 1024 * 1024 /\ fuReq = NoFile

(* C10 as claimed: after a failed request the list is as it was when the   *)
(* request was issued, and no summary operation changes the list.          *)
SummaryStep ==
    lastStep' \in {"handleGenerateSummary", "SummaryOk", "SummaryFail", "CloseSummary"}

C10_ListAsWhenIssued ==
    [][/\ \A r \in listReqs :
             (r \notin listReqs' /\ lastStep' \in {"ListAllFail", "SearchFail"})
                 => notes' = r.shown
       /\ lastStep' = "UploadFail" => notes' = shownAtSubmit
       /\ lastStep' = "SummaryFail" => notes' = summaryReq.shown
       /\ SummaryStep => notes' = notes]_vars

(* C10, amended: a failed request leaves the list as it was just before    *)
(* the failure, and no summary operation changes the list.                 *)
C10_FailuresKeepList ==
    [][(\/ lastStep' \in {"FetchNotesFail", "ListAllFail", "SearchFail", "UploadFail",
                          "RefetchFail"}
        \/ SummaryStep)
          => notes' = notes]_vars

(* a filtered search has failed while a list was displayed *)
C10_Witness ==
    /\ lastStep = "SearchFail"
    /\ notes # <<>>
    /\ toast = <<"Search failed">>

(* C11: when a request issued by handleSearch fails, isSearching is again   *)
(* what it was immediately before that request was issued.                 *)
C11_ModeRevertsOnFailure ==
    [][\A r \in listReqs :
          (r \notin listReqs' /\ lastStep' \in {"ListAllFail", "SearchFail"})
              => isSearching' = r.mode]_vars

(* C12 as claimed: when the upload fails, the draft and the open state of  *)
(* the form are what they were when the submit was made.                   *)
C12_DraftAsBeforeSubmit ==
    [][lastStep' = "UploadFail" =>
          /\ newNote' = draftAtSubmit.draft
          /\ isUploadModalOpen' = draftAtSubmit.open]_vars

(* C12, amended: handling the failed upload changes no draft field and not *)
(* the open state of the form.                                             *)
C12_FailureKeepsDraft ==
    [][lastStep' = "UploadFail" =>
          /\ newNote' = newNote
          /\ isUploadModalOpen' = isUploadModalOpen]_vars

(* an upload of a valid LINK draft has failed; the form is open on the     *)
(* same draft, ready to be submitted again                                 *)
C12_Witness ==
    /\ lastStep = "UploadFail"
    /\ isUploadModalOpen /\ ~isSubmitting /\ submitPc = "idle"
    /\ newNote.type = "LINK" /\ newNote.title = <<" ", "T">>
    /\ ValidationError(newNote) = Null

(* C13: after a successful submit, after Cancel and after the close button *)
(* has dismissed the form, and when the form is opened again, every draft  *)
(* field has its initial value.                                            *)
C13_DraftDestroyed ==
    (\/ lastStep \in {"RefetchOk", "RefetchFail", "CancelUpload", "OpenUploadModal"}
     \/ lastStep = "CloseUploadModal" /\ ~isUploadModalOpen)
        => newNote = EmptyDraft

(* C14: a FILE draft has no content and a TEXT or LINK draft has no file;  *)
(* switching to FILE clears the content, switching away clears the file.   *)
C14_ContentXorFile ==
    /\ [](/\ newNote.type = "FILE" => newNote.content = <<>>
          /\ newNote.type \in {"TEXT", "LINK"} => newNote.file = NoFile)
    /\ [][lastStep' = "SetType" =>
              /\ newNote'.type = "FILE" => newNote'.content = <<>>
              /\ newNote'.type # "FILE" => newNote'.file = NoFile]_vars

(* the kind was switched away from FILE on a draft that held a file *)
C14_Witness ==
    /\ lastStep = "SetType"
    /\ newNote.type = "TEXT" /\ newNote.file = NoFile
    /\ newNote.title = <<"F">>

(* C15: a summary request rejected by the server with a detail ends the    *)
(* session failed (not loading, no text) with that detail as its error     *)
(* message; the generic message appears only for a failure without message.*)
GenericSummaryErrors ==
    { <<"Failed to generate summary. Please try again.">>,
      <<"Failed to get summary. Please try again.">>,
      <<"Failed to generate summary">> }

C15_DetailShownVerbatim ==
    [][\A f \in SummaryFailures :
          /\ SummaryFail(f) =>
                /\ ~isGeneratingSummary' /\ summary' = <<>>
                /\ (f.response /\ Truthy(f.detail)) => summaryError' = f.detail
                /\ summaryError' \in GenericSummaryErrors
                      => ~Truthy(f.detail) /\ ~Truthy(f.message)
          /\ \A r \in appReqs : AppSummaryFail(r, f) =>
                /\ ~appIsLoading' /\ appSummary' = <<>>
                /\ (f.response /\ Truthy(f.detail)) => appError' = f.detail
                /\ appError' \in GenericSummaryErrors
                      => ~Truthy(f.detail) /\ ~Truthy(f.message)]_vars

(* C16: while a summary view is closed its session holds neither a summary *)
(* text nor an error message, whatever arrives after the view was closed.  *)
C16_ClosedViewHoldsNothing ==
    /\ ~isSummaryModalOpen => (summary = <<>> /\ summaryError = Null)
    /\ ~isModalOpen => (appSummary = <<>> /\ appError = Null)

(* C17: whatever records a list request is answered with, the normalizer   *)
(* raises nothing and yields one Resource per record, each with one of the *)
(* five categories.                                                        *)
Categories == {"pdf", "docx", "image", "url", "other"}

NormalizerRan == lastStep \in {"FetchNotesOk", "FetchNotesThrew"}

C17_NormalizerTotal ==
    NormalizerRan =>
        /\ \A i \in 1..Len(answer) : ~Throws(answer[i])
        /\ Len(notes) = Len(answer)
        /\ \A i \in 1..Len(notes) : notes[i].type \in Categories

(* C18: a record whose file_url is null, empty or "None" becomes a         *)
(* Resource of type other with the sentinel as url, with or without        *)
(* summary.                                                                *)
C18_NoUrlIsText ==
    lastStep = "FetchNotesOk" =>
        \A i \in 1..Len(answer) :
            answer[i].file_url \in {Null, <<>>, NoneLiteral} =>
                notes[i].type = "other" /\ notes[i].url = Sentinel

(* a record with file_url "None" and no summary was normalized *)
C18_Witness ==
    /\ lastStep = "FetchNotesOk"
    /\ Len(answer) = 1 /\ Len(notes) = 1
    /\ answer[1].file_url = NoneLiteral /\ answer[1].summary = Null
    /\ notes[1].type = "other" /\ notes[1].url = Sentinel

(* C19: a Resource of the displayed list carries a url other than the      *)
(* sentinel only if its type is pdf, docx, image or url.                   *)
C19_UrlOnlyForUrlCategories ==
    \A i \in 1..Len(notes) :
        notes[i].url # Sentinel => notes[i].type \in {"pdf", "docx", "image", "url"}

(* C20: the displayed list has one Resource per answered record, in the    *)
(* order of the records, with the record's id as a string and its title,   *)
(* rating 0 and no tags.                                                   *)
C20_NormalizationKeepsAll ==
    NormalizerRan =>
        /\ Len(notes) = Len(answer)
        /\ \A i \in 1..Len(notes) :
              /\ notes[i].id = ToString(answer[i].id)
              /\ notes[i].title = answer[i].title
              /\ notes[i].rating = 0
              /\ notes[i].tags = <<>>

(* C21: the list displayed after a list answer is the normalization of the *)
(* answered records at any moment: normalizing them again, at another      *)
(* time, gives Resources equal in every field.                             *)
C21_NormalizationPure ==
    lastStep = "FetchNotesOk" => \A now \in Times : notes = FormatNotes(answer, now)

(* C22: once a filtered search is answered with success, isSearching is    *)
(* true, and stays so until a list-all request is answered with success.   *)
C22_SearchingUntilListAll ==
    /\ [](lastStep = "SearchOk" => isSearching)
    /\ [][(isSearching /\ ~isSearching') => lastStep' = "ListAllOk"]_vars

(* C23: an absolute file_url with a storage marker (/uploads/ or a         *)
(* cloudinary host) and none of the pdf, doc/docx, image extensions gives  *)
(* the type other, never url.                                              *)
IsAbsolute(url) == StartsWithAny(url, HttpTokens)
HasStorageMarker(url) == IncludesAny(url, {"/uploads/"} \cup CloudinaryTokens)
HasPdfExt(url) == IncludesAny(url, PdfTokens)
HasDocExt(url) == IncludesAny(url, DocTokens)
HasImageExt(url) == MatchesImageRegex(url)

C23_StoredFileWithoutExtIsText ==
    lastStep = "FetchNotesOk" =>
        \A i \in 1..Len(answer) :
            LET u == answer[i].file_url IN
            (/\ IsAbsolute(u) /\ HasStorageMarker(u)
             /\ ~HasPdfExt(u) /\ ~HasDocExt(u) /\ ~HasImageExt(u))
                => notes[i].type = "other"

(* C24: for an absolute file_url the type is pdf, else docx, else image by *)
(* extension, in that order, else url when there is no storage marker, and *)
(* in each of these cases the url of the Resource is the file_url.         *)
C24_AbsoluteUrlPriority ==
    lastStep = "FetchNotesOk" =>
        \A i \in 1..Len(answer) :
            LET u == answer[i].file_url IN
            IsAbsolute(u) =>
                /\ HasPdfExt(u) => notes[i].type = "pdf"
                /\ (~HasPdfExt(u) /\ HasDocExt(u)) => notes[i].type = "docx"
                /\ (~HasPdfExt(u) /\ ~HasDocExt(u) /\ HasImageExt(u))
                      => notes[i].type = "image"
                /\ (/\ ~HasPdfExt(u) /\ ~HasDocExt(u) /\ ~HasImageExt(u)
                    /\ ~HasStorageMarker(u)) => notes[i].type = "url"
                /\ (HasPdfExt(u) \/ HasDocExt(u) \/ HasImageExt(u) \/ ~HasStorageMarker(u))
                      => notes[i].url = u

(* a pdf on the cloudinary host was normalized as pdf with its own URL *)
C24_Witness ==
    /\ lastStep = "FetchNotesOk"
    /\ \E i \in 1..Len(answer) :
          /\ answer[i].file_url = <<"https://", "res.cloudinary.com", "/", "name", ".pdf">>
          /\ notes[i].type = "pdf"
          /\ notes[i].url = answer[i].file_url

(* C25: an upload request carries the trimmed content and no file for a    *)
(* TEXT or LINK draft, and the file and no content for a FILE draft.       *)
C25_ExactlyOneOfFileAndContent ==
    uploadReq # NoFormData =>
        /\ uploadReq.type \in {"TEXT", "LINK"} =>
              /\ uploadReq.file = NoFile
              /\ uploadReq.content # Null
              /\ uploadReq.content = Trim(draftAtSubmit.draft.content)
        /\ uploadReq.type = "FILE" =>
              /\ uploadReq.file # NoFile
              /\ uploadReq.file = draftAtSubmit.draft.file
              /\ uploadReq.content = Null

(* a TEXT draft whose content began with a blank went out trimmed, without *)
(* a file                                                                  *)
C25_Witness ==
    /\ uploadReq # NoFormData /\ uploadReq.type = "TEXT"
    /\ draftAtSubmit.draft.content = <<" ", "http", "x">>
    /\ uploadReq.content = <<"http", "x">>
    /\ uploadReq.file = NoFile

(* C26: when nothing is in flight and every request was answered with      *)
(* success, the list shows a list-all answer if the trimmed query is       *)
(* shorter than 2, and the answer to a search for the query otherwise.     *)
C26_ListMatchesQuery ==
    (listReqs = {} /\ submitPc = "idle" /\ listSource # NoSource) =>
        IF TooShort(searchQuery)
        THEN listSource.fn = "getNotes"
        ELSE listSource.fn = "searchResources" /\ listSource.q = searchQuery

(* C27: the optimistic insert of a resource that was not in the list when  *)
(* the submit was made leaves a list without two entries of the same id.   *)
DistinctIds(list) ==
    \A i \in 1..Len(list), j \in 1..Len(list) : i # j => list[i].id # list[j].id

C27_NoDuplicateIds ==
    [][(/\ lastStep' = "UploadOk"
        /\ DistinctIds(notes)
        /\ \A k \in 1..Len(shownAtSubmit) : shownAtSubmit[k].id # uploadResponse'.id)
          => DistinctIds(notes')]_vars

(* C28: isGeneratingSummary is true exactly while a summary request of     *)
(* KnowledgeHub is in flight, and a request is issued only when none is.   *)
C28_OneSummaryInFlight ==
    /\ [](isGeneratingSummary <=> summaryReq # NoReq)
    /\ [][lastStep' = "handleGenerateSummary" =>
              summaryReq = NoReq /\ ~isGeneratingSummary]_vars

(* the summary view was closed while its request was in flight; the AI     *)
(* Summary action is still disabled                                        *)
C28_Witness ==
    /\ lastStep = "CloseSummary"
    /\ ~isSummaryModalOpen
    /\ summaryReq # NoReq /\ isGeneratingSummary

(* C29: isSubmitting is true exactly from a valid submit until the upload   *)
(* has failed or the re-fetch has settled, and it always becomes false     *)
(* again.                                                                  *)
C29_SubmittingWhileInProgress ==
    /\ [](isSubmitting <=> submitPc # "idle")
    /\ (isSubmitting ~> ~isSubmitting)

(* a submit has ended on a failed upload and the button is enabled again   *)
C29_Witness ==
    /\ lastStep = "UploadFail"
    /\ submits = 1 /\ submitPc = "idle" /\ ~isSubmitting

(* C30: when the re-fetch brings the created resource back, with the url   *)
(* of the upload response as file_url (none for a text note), the type of  *)
(* its entry is the type the provisional entry had.                        *)
C30_ReconciliationKeepsType ==
    [][(/\ lastStep' = "RefetchOk"
        /\ notes # <<>> /\ notes[1].id = uploadResponse.id
        /\ answer' # <<>> /\ ToString(answer'[1].id) = uploadResponse.id
        /\ answer'[1].file_url = (IF uploadResponse.type = "text" THEN Null
                                  ELSE uploadResponse.url))
          => notes'[1].type = notes[1].type]_vars

=============================================================================
